---- MODULE Spec2Model ----
(***************************************************************************)
(* HitsterWebApp (src/app.py): the round lifecycle, the guess ledger, the  *)
(* scoring engine, the standings and their snapshots, and the auto-round   *)
(* scheduler, as the request handlers of app.py run them against the       *)
(* shared SQLite store.                                                    *)
(*                                                                         *)
(* Every request runs in a worker of its own with a connection of its own  *)
(* (get_db, line 58).  A statement outside a transaction sees the last     *)
(* committed state; the statements between the first write and the commit  *)
(* form one transaction, which SQLite serialises against every other       *)
(* writer.  One action of the model is therefore one SELECT or one         *)
(* committed write transaction of a handler, and the actions of the        *)
(* workers interleave freely.                                              *)
(*                                                                         *)
(* Text is a tuple of characters; NULL text is the empty tuple (the code   *)
(* stores `x or None`, so an empty string is never stored, and reads NULL  *)
(* back as "").  An optional integer is <<>> (NULL) or <<n>>.              *)
(*                                                                         *)
(* Time is kept relative to the present: next_round_at holds the number of *)
(* whole seconds from the last write or tick until the stored due time     *)
(* (0: due), because the code only ever compares the stored time with      *)
(* utc_now().  ended_at keeps whether a timestamp is stored, not its       *)
(* value; closed_at is "" (NULL), "t" (the second of the first close of    *)
(* the round) or "u" (a later second).                                     *)
(***************************************************************************)
EXTENDS Integers, Sequences, FiniteSets, TLC

\* ------------------------------------------------------------------ bounds
\* Rounds ever created (the AUTOINCREMENT sequence of table rounds).
MaxRounds == 2
\* Rounds ever created in SpecGuess, and in SpecSeq.
MaxGuessRounds == 1
MaxSeqRounds == 1
\* Rounds ever created in SpecBoard.
MaxBoardRounds == 2
\* Longest song or artist text, and largest year, SpecScore draws.
MaxLen == 4
MaxYear == 12

\* Seconds close_round arms the scheduler with (set_next_round_in_seconds(5)).
Delay == 5

Workers == {1, 2}

NULL == <<>>
NotSet == -1

\* ------------------------------------------------------------ text helpers
IsSpace(c) == c \in {" ", "\t"}

\* SQLite's NOCASE folds the 26 upper case letters of ASCII, and only them
Fold(c) ==
  CASE c = "A" -> "a"
    [] c = "B" -> "b"
    [] OTHER -> c

\* str.casefold() folds every letter
FoldUnicode(c) == IF c = "É" THEN "é" ELSE Fold(c)

RECURSIVE LStrip(_)
LStrip(s) == IF s # <<>> /\ IsSpace(Head(s)) THEN LStrip(Tail(s)) ELSE s

RECURSIVE RStrip(_)
RStrip(s) ==
  IF s # <<>> /\ IsSpace(s[Len(s)]) THEN RStrip(SubSeq(s, 1, Len(s) - 1)) ELSE s

\* str.strip()
Strip(s) == RStrip(LStrip(s))

\* _ws_re.sub(" ", s): every maximal run of whitespace becomes one space
RECURSIVE Collapse(_)
Collapse(s) ==
  IF s = <<>> THEN <<>>
  ELSE IF IsSpace(Head(s))
       THEN <<" ">> \o Collapse(LStrip(s))
       ELSE <<Head(s)>> \o Collapse(Tail(s))

Casefold(s) == [i \in 1..Len(s) |-> FoldUnicode(s[i])]

\* A mutant of normalize_text: runs of whitespace are kept
normalize_text_NoCollapse(s) == IF s = <<>> THEN <<>> ELSE Casefold(Strip(s))

normalize_text(s) == IF s = <<>> THEN <<>> ELSE Casefold(Collapse(Strip(s)))

\* ------------------------------------------------------- optional integers
Digits == <<"0", "1", "2", "3", "4", "5", "6", "7", "8", "9">>

IsDigit(c) == \E d \in 1..10 : Digits[d] = c

DigitVal(c) == (CHOOSE d \in 1..10 : Digits[d] = c) - 1

RECURSIVE DigitsVal(_, _)
DigitsVal(s, acc) ==
  IF s = <<>> THEN acc ELSE DigitsVal(Tail(s), 10 * acc + DigitVal(Head(s)))

AllDigits(s) == s # <<>> /\ \A i \in 1..Len(s) : IsDigit(s[i])

\* The handlers' `if raw: try: int(raw) except ValueError: None` on stripped
\* text: an optional sign and decimal digits give a number, anything else NULL.
ParseYear(raw) ==
  IF raw = <<>> THEN NULL
  ELSE IF Head(raw) \in {"+", "-"}
       THEN IF AllDigits(Tail(raw))
            THEN <<(IF Head(raw) = "-" THEN -1 ELSE 1) * DigitsVal(Tail(raw), 0)>>
            ELSE NULL
       ELSE IF AllDigits(raw) THEN <<DigitsVal(raw, 0)>> ELSE NULL

Abs(n) == IF n < 0 THEN -n ELSE n

\* ----------------------------------------------------------------- scoring
\* A mutant of score_year: a difference of 10 falls out of the 6..10 band
score_year_OffByOne(diff, d) ==
  IF d = "easy"
  THEN CASE diff = 0 -> 5
         [] diff = 1 -> 4
         [] diff = 2 -> 3
         [] 3 <= diff /\ diff <= 5 -> 2
         [] 6 <= diff /\ diff < 10 -> 1
         [] OTHER -> 0
  ELSE IF d = "hard"
  THEN CASE diff = 0 -> 10
         [] diff = 1 -> 8
         [] diff = 2 -> 6
         [] 3 <= diff /\ diff <= 5 -> 4
         [] 6 <= diff /\ diff < 10 -> 2
         [] OTHER -> -4
  ELSE IF d = "extreme"
  THEN CASE diff = 0 -> 10
         [] diff >= 10 -> -5
         [] OTHER -> 0
  ELSE 0

score_year(diff, d) ==
  IF d = "easy"
  THEN CASE diff = 0 -> 5
         [] diff = 1 -> 4
         [] diff = 2 -> 3
         [] 3 <= diff /\ diff <= 5 -> 2
         [] 6 <= diff /\ diff <= 10 -> 1
         [] OTHER -> 0
  ELSE IF d = "hard"
  THEN CASE diff = 0 -> 10
         [] diff = 1 -> 8
         [] diff = 2 -> 6
         [] 3 <= diff /\ diff <= 5 -> 4
         [] 6 <= diff /\ diff <= 10 -> 2
         [] OTHER -> -4
  ELSE IF d = "extreme"
  THEN CASE diff = 0 -> 10
         [] diff > 10 -> -5
         [] OTHER -> 0
  ELSE 0

score_song_artist(guess, correct) ==
  IF correct = <<>> THEN 0
  ELSE IF normalize_text(guess) = normalize_text(correct) THEN 5 ELSE 0

\* The year points of one guess (compute_and_store_round_scores, the loop body).
PointsYear(gy, cy, d) ==
  IF cy # NULL /\ gy # NULL THEN score_year(Abs(gy[1] - cy[1]), d) ELSE 0

\* A mutant of ScoreRow: a negative total is stored as 0
ScoreRow_Clamped(g, cs, ca, cy, d) ==
  LET py == PointsYear(g.guess_year, cy, d)
      ps == score_song_artist(g.guess_song, cs)
      pa == score_song_artist(g.guess_artist, ca)
  IN  [points_year |-> py, points_song |-> ps, points_artist |-> pa,
       total_points |-> IF py + ps + pa < 0 THEN 0 ELSE py + ps + pa]

\* One guess row scored against the answers (cs, ca, cy) under difficulty d.
ScoreRow(g, cs, ca, cy, d) ==
  LET py == PointsYear(g.guess_year, cy, d)
      ps == score_song_artist(g.guess_song, cs)
      pa == score_song_artist(g.guess_artist, ca)
  IN  [points_year |-> py, points_song |-> ps, points_artist |-> pa,
       total_points |-> py + ps + pa]

\* ------------------------------------------------------------------- state
VARIABLES
  players,        \* table players: rows [id, name]
  rounds,         \* table rounds: rows [id, status, correct_*, closed_at]
  round_seq,      \* the AUTOINCREMENT sequence of rounds (ids are never reused)
  guesses,        \* table guesses: rows [round_id, player_id, guess_*, points_*]
  history,        \* table standings_history: rows [round_id, player_id, rank, points]
  difficulty,     \* settings: 'difficulty'
  game_status,    \*           'game_status'
  ended_at,       \*           'ended_at' ("" or a timestamp, "t")
  auto_rounds,    \*           'auto_rounds' ("0" or "1")
  next_round_at,  \*           'next_round_at' (NotSet, or seconds until due)
  req,            \* per worker: the request it serves and the handler's locals
  accepted        \* history: per (round, player) the last submission that was
                  \* accepted, and whether an earlier one was (the guesses table
                  \* does not keep this; the code never reads it)

db == <<players, rounds, round_seq, guesses, history, difficulty, game_status,
        ended_at, auto_rounds, next_round_at, accepted>>
settings == <<difficulty, game_status, ended_at, auto_rounds, next_round_at>>
vars == <<players, rounds, round_seq, guesses, history, difficulty, game_status,
          ended_at, auto_rounds, next_round_at, req, accepted>>

NoRound == [found |-> FALSE, correct_song |-> NULL, correct_artist |-> NULL,
            correct_year |-> NULL]

\* A worker between requests.
Idle == [op |-> "", pc |-> "idle", retG |-> "", retA |-> "",
         open_round |-> 0, player |-> 0, name |-> <<>>,
         sdiff |-> "", srnd |-> NoRound, rows |-> {}, standings |-> <<>>]

\* init_db: the empty tables and the default settings.
Init ==
  /\ players = {}
  /\ rounds = {}
  /\ round_seq = 0
  /\ guesses = {}
  /\ history = {}
  /\ difficulty = "easy"
  /\ game_status = "running"
  /\ ended_at = ""
  /\ auto_rounds = "0"
  /\ next_round_at = NotSet
  /\ req = [w \in Workers |-> Idle]
  /\ accepted = {}

\* ----------------------------------------------------------- read helpers
Max(S) == CHOOSE x \in S : \A y \in S : y <= x

OpenIds(rs) == {r.id : r \in {x \in rs : x.status = "open"}}

\* SELECT * FROM rounds WHERE status='open' ORDER BY id DESC LIMIT 1 (0: no row)
OpenRoundId(rs) == IF OpenIds(rs) = {} THEN 0 ELSE Max(OpenIds(rs))

is_game_ended == game_status = "ended"

auto_rounds_enabled == auto_rounds = "1"

\* parse_iso_dt(next_round_at) is set and utc_now() >= it
Due == next_round_at # NotSet /\ next_round_at = 0

difficulty_locked == Cardinality(rounds) > 0

\* ---------------------------------------------------------------- standings
CharCode(c) ==
  CASE c = " " -> 32
    [] c = "A" -> 65
    [] c = "B" -> 66
    [] c = "a" -> 97
    [] c = "b" -> 98
    [] c = "É" -> 201
    [] c = "é" -> 233
    [] OTHER -> 0

\* COLLATE NOCASE: byte order after folding the ASCII upper case letters
RECURSIVE NocaseLess(_, _)
NocaseLess(s, t) ==
  IF t = <<>> THEN FALSE
  ELSE IF s = <<>> THEN TRUE
  ELSE IF CharCode(Fold(Head(s))) # CharCode(Fold(Head(t)))
       THEN CharCode(Fold(Head(s))) < CharCode(Fold(Head(t)))
       ELSE NocaseLess(Tail(s), Tail(t))

RECURSIVE SumTotals(_)
SumTotals(gs) ==
  IF gs = {} THEN 0
  ELSE LET g == CHOOSE x \in gs : TRUE
       IN  g.total_points + SumTotals(gs \ {g})

\* COALESCE(SUM(g.total_points), 0) of one player: the LEFT JOIN takes every
\* guess of the player, whatever the status of its round.
PointsOf(pid, gs) == SumTotals({g \in gs : g.player_id = pid})

\* ORDER BY points DESC, p.name COLLATE NOCASE ASC (rows the key does not
\* separate come in id order, as SQLite reads them).
Before(p, q, gs) ==
  \/ PointsOf(p.id, gs) > PointsOf(q.id, gs)
  \/ /\ PointsOf(p.id, gs) = PointsOf(q.id, gs)
     /\ \/ NocaseLess(p.name, q.name)
        \/ ~NocaseLess(q.name, p.name) /\ p.id < q.id

\* compute_standings(): the ordered list of [player_id, player, points]
compute_standings(ps, gs) ==
  [i \in 1..Cardinality(ps) |->
     LET p == CHOOSE x \in ps : Cardinality({q \in ps : Before(q, x, gs)}) = i - 1
     IN  [player_id |-> p.id, player |-> p.name, points |-> PointsOf(p.id, gs)]]

\* api_standings / game: rank is the position in the list
api_standings(ps, gs) ==
  LET st == compute_standings(ps, gs)
  IN  [i \in 1..Len(st) |->
         [rank |-> i, player_id |-> st[i].player_id, player |-> st[i].player,
          points |-> st[i].points]]

\* ------------------------------------------------------------- rank delta
\* lines 403-405: SELECT id FROM rounds WHERE status='closed' ORDER BY id DESC
\* LIMIT 1 (0 when there is no row)
LastClosed(rs) ==
  LET ids == {r.id : r \in {x \in rs : x.status = "closed"}}
  IN  IF ids = {} THEN 0 ELSE Max(ids)

\* lines 409-412: ... WHERE status='closed' AND id < ? ORDER BY id DESC LIMIT 1
PrevClosed(rs, last) ==
  LET ids == {r.id : r \in {x \in rs : x.status = "closed" /\ x.id < last}}
  IN  IF ids = {} THEN 0 ELSE Max(ids)

\* lines 414-418, 423-427: {player_id: rank} of the snapshot of round rid
RankMap(h, rid) ==
  LET rows == {x \in h : x.round_id = rid}
  IN  [pid \in {x.player_id : x \in rows} |->
         (CHOOSE x \in rows : x.player_id = pid).rank]

\* A mutant of get_rank_delta_for_latest: latest rank minus previous rank
get_rank_delta_for_latest_Reversed(rs, h) ==
  LET last == LastClosed(rs)
      prev == PrevClosed(rs, last)
      last_rank == RankMap(h, last)
      prev_rank == RankMap(h, prev)
  IN  IF last = 0 THEN <<>>
      ELSE IF prev = 0 THEN [pid \in DOMAIN last_rank |-> 0]
      ELSE [pid \in DOMAIN last_rank |->
              last_rank[pid]
                - (IF pid \in DOMAIN prev_rank THEN prev_rank[pid] ELSE last_rank[pid])]

\* get_rank_delta_for_latest(): {player_id: previous rank - latest rank}
get_rank_delta_for_latest(rs, h) ==
  LET last == LastClosed(rs)
      prev == PrevClosed(rs, last)
      last_rank == RankMap(h, last)
      prev_rank == RankMap(h, prev)
  IN  IF last = 0 THEN <<>>
      ELSE IF prev = 0 THEN [pid \in DOMAIN last_rank |-> 0]
      ELSE [pid \in DOMAIN last_rank |->
              (IF pid \in DOMAIN prev_rank THEN prev_rank[pid] ELSE last_rank[pid])
                - last_rank[pid]]

\* lines 659-670: the JSON of /api/standings
api_standings_json(ps, gs, rs, h) ==
  LET st == compute_standings(ps, gs)
      delta_map == get_rank_delta_for_latest(rs, h)
  IN  [i \in 1..Len(st) |->
         [rank |-> i, player |-> st[i].player, points |-> st[i].points,
          delta |-> IF st[i].player_id \in DOMAIN delta_map
                    THEN delta_map[st[i].player_id] ELSE 0]]

\* ------------------------------------------------------------ control flow
\* str(n) of a row id
Str(n) == IF n < 10 THEN <<Digits[n + 1]>> ELSE <<Digits[(n \div 10) + 1], Digits[(n % 10) + 1]>>

\* Where a handler goes on.  "tail" is the end of admin() (lines 885-889):
\* auto_open_round_if_due(), then get_open_round() twice; "end" is the response.
Enter(label, r) ==
  CASE label = "tail"  -> [Idle EXCEPT !.pc = "ao_pre", !.retA = "tl_g1"]
    [] label = "tl_g1" -> [Idle EXCEPT !.pc = "g_sel", !.retG = "tl_g2"]
    [] label = "tl_g2" -> [Idle EXCEPT !.pc = "g_sel", !.retG = "end"]
    [] label = "end"   -> Idle
    [] OTHER           -> [r EXCEPT !.pc = label]

\* get_open_round() called with the place to go on at
CallGet(ret, r) == [r EXCEPT !.pc = "g_sel", !.retG = ret, !.retA = ""]

\* An admin action is over: admin() goes on to its tail.
Answer(r) == Enter("tail", r)

\* An exception leaves the handler: the response is a 500, nothing is committed.
Raise(r) == Idle

Starts(w) == req[w].pc = "idle"

Begin(op) == [Idle EXCEPT !.op = op]

At(w, label) == req[w].pc = label

Set(w, r) == req' = [req EXCEPT ![w] = r]

\* ------------------------------------------------------------------- clock
\* Time passes until the pending due time is reached (before that, the passing
\* of time changes nothing the code reads).
Tick ==
  /\ next_round_at # NotSet
  /\ next_round_at > 0
  /\ next_round_at' = 0
  /\ UNCHANGED <<players, accepted, rounds, round_seq, guesses, history, difficulty,
                 game_status, ended_at, auto_rounds, req>>

\* --------------------------------------------------------- get_open_round
\* line 290: the first SELECT of get_open_round
GSel(w) ==
  /\ At(w, "g_sel")
  /\ LET rid == OpenRoundId(rounds)
         r == [req[w] EXCEPT !.open_round = rid]
     IN  Set(w, IF rid # 0 THEN Enter(r.retG, r)
                ELSE [r EXCEPT !.pc = "ao_pre", !.retA = "g_sel2"])
  /\ UNCHANGED db

\* A mutant of AoPre: the due time is never found elapsed
AoPre_NeverDue(w) ==
  /\ At(w, "ao_pre")
  /\ Set(w, Enter(req[w].retA, req[w]))
  /\ UNCHANGED db

\* lines 249-256: the checks of auto_open_round_if_due before the transaction.
\* The three settings are read one after the other; their only effect is to
\* enter the transaction, which checks them all again.
AoPre(w) ==
  /\ At(w, "ao_pre")
  /\ Set(w, IF is_game_ended \/ ~auto_rounds_enabled \/ ~Due
            THEN Enter(req[w].retA, req[w])
            ELSE [req[w] EXCEPT !.pc = "ao_txn"])
  /\ UNCHANGED db

\* A mutant of AoRecheck: the transaction does not look for an open round again.
AoRecheck_NoOpenCheck ==
  /\ game_status = "running"
  /\ auto_rounds = "1"
  /\ next_round_at # NotSet /\ next_round_at = 0

\* A mutant of AoRecheck: the transaction does not read game_status again.
AoRecheck_NoStatusCheck ==
  /\ OpenIds(rounds) = {}
  /\ auto_rounds = "1"
  /\ next_round_at # NotSet /\ next_round_at = 0

\* A mutant of AoRecheck: the transaction does not read auto_rounds again.
AoRecheck_NoAutoCheck ==
  /\ OpenIds(rounds) = {}
  /\ game_status = "running"
  /\ next_round_at # NotSet /\ next_round_at = 0

\* lines 263-273: the re-check inside BEGIN IMMEDIATE
AoRecheck ==
  /\ OpenIds(rounds) = {}
  /\ game_status = "running"
  /\ auto_rounds = "1"
  /\ Due

\* A mutant of AoTxn: the transaction is left without its INSERT committed.
AoTxn_NotCommitted(w, cap) ==
  /\ At(w, "ao_txn")
  /\ Set(w, Enter(req[w].retA, req[w]))
  /\ UNCHANGED db

\* lines 260-281: BEGIN IMMEDIATE ... COMMIT
AoTxn(w, cap) ==
  /\ At(w, "ao_txn")
  /\ IF AoRecheck
     THEN /\ round_seq < cap
          /\ rounds' = rounds \cup
               {[id |-> round_seq + 1, status |-> "open", correct_song |-> NULL,
                 correct_artist |-> NULL, correct_year |-> NULL, closed_at |-> ""]}
          /\ round_seq' = round_seq + 1
          /\ next_round_at' = NotSet
     ELSE UNCHANGED <<rounds, round_seq, next_round_at>>
  /\ Set(w, Enter(req[w].retA, req[w]))
  /\ UNCHANGED <<players, accepted, guesses, history, difficulty, game_status, ended_at,
                 auto_rounds>>

\* lines 282-286: a statement of the transaction raises (the store is busy
\* beyond the connection's timeout, say); the except rolls back and
\* auto_open_round_if_due returns
AoFail(w) ==
  /\ At(w, "ao_txn")
  /\ Set(w, Enter(req[w].retA, req[w]))
  /\ UNCHANGED db

\* line 295: the second SELECT of get_open_round
GSel2(w) ==
  /\ At(w, "g_sel2")
  /\ LET r == [req[w] EXCEPT !.open_round = OpenRoundId(rounds)]
     IN  Set(w, Enter(r.retG, r))
  /\ UNCHANGED db

\* ------------------------------------------------------------------- reads
\* /game, /api/state, /api/admin/open_round_guesses: get_open_round()
ReadBegin(w) ==
  /\ Starts(w)
  /\ Set(w, CallGet("end", Begin("read")))
  /\ UNCHANGED db

\* GET /admin: only the tail
AdminGet(w) ==
  /\ Starts(w)
  /\ Set(w, Answer(Begin("admin_get")))
  /\ UNCHANGED db

\* GET /api/standings (lines 657-670): the response is built
ApiStandings(w) ==
  /\ Starts(w)
  /\ Set(w, [Begin("api_standings") EXCEPT
               !.pc = "ap_resp",
               !.standings = api_standings_json(players, guesses, rounds, history)])
  /\ UNCHANGED db

\* line 670: the response is sent
ApiEnd(w) ==
  /\ At(w, "ap_resp")
  /\ Set(w, Idle)
  /\ UNCHANGED db

\* ---------------------------------------------------------------- register
\* lines 456-466: the name, and the SELECT ... WHERE name=? COLLATE NOCASE
RegSel(w, Names) ==
  /\ Starts(w)
  /\ \E raw \in Names :
       LET name == Strip(raw)
           same == {p \in players : ~NocaseLess(p.name, name) /\ ~NocaseLess(name, p.name)}
       IN  Set(w, IF name = <<>> THEN Idle
                  ELSE IF same # {} THEN Idle
                  ELSE [Begin("register") EXCEPT !.pc = "reg_ins", !.name = name])
  /\ UNCHANGED db

\* lines 468-477: INSERT INTO players (name is UNIQUE)
RegIns(w) ==
  /\ At(w, "reg_ins")
  /\ IF \E p \in players : p.name = req[w].name
     THEN /\ Set(w, Raise(req[w]))
          /\ UNCHANGED players
     ELSE /\ players' = players \cup
               {[id |-> Cardinality(players) + 1, name |-> req[w].name]}
          /\ Set(w, Idle)
  /\ UNCHANGED <<rounds, round_seq, guesses, history, difficulty, game_status,
                 ended_at, auto_rounds, next_round_at, accepted>>

\* ------------------------------------------------------------------ submit
\* lines 569-574: the session's player, then is_game_ended()
SubEnded(w) ==
  /\ Starts(w)
  /\ \E p \in players :
       Set(w, IF is_game_ended THEN Idle
              ELSE CallGet("sub_ups", [Begin("submit") EXCEPT !.player = p.id]))
  /\ UNCHANGED db

\* A mutant of Upsert: ON CONFLICT(round_id, player_id) DO NOTHING
Upsert_DoNothing(gs, rid, pid, song, artist, year) ==
  IF \E g \in gs : g.round_id = rid /\ g.player_id = pid
  THEN gs
  ELSE gs \cup {[round_id |-> rid, player_id |-> pid, guess_song |-> song,
                 guess_artist |-> artist, guess_year |-> year, points_year |-> 0,
                 points_song |-> 0, points_artist |-> 0, total_points |-> 0]}

\* The row the upsert of lines 601-620 leaves for (rid, pid)
Upsert(gs, rid, pid, song, artist, year) ==
  IF \E g \in gs : g.round_id = rid /\ g.player_id = pid
  THEN {IF g.round_id = rid /\ g.player_id = pid
        THEN [g EXCEPT !.guess_song = song, !.guess_artist = artist, !.guess_year = year]
        ELSE g : g \in gs}
  ELSE gs \cup {[round_id |-> rid, player_id |-> pid, guess_song |-> song,
                 guess_artist |-> artist, guess_year |-> year, points_year |-> 0,
                 points_song |-> 0, points_artist |-> 0, total_points |-> 0]}

\* The record of an accepted submission
Accept(acc, rid, pid, song, artist, year) ==
  LET old == {a \in acc : a.round_id = rid /\ a.player_id = pid}
  IN  (acc \ old) \cup
        {[round_id |-> rid, player_id |-> pid, guess_song |-> song,
          guess_artist |-> artist, guess_year |-> year, again |-> old # {}]}

\* line 597: the form holds at least one answer
HasAnswer(song, artist, year_raw) == song # <<>> \/ artist # <<>> \/ year_raw # <<>>

\* A mutant of SubUpsert: FOREIGN KEY(round_id) is not enforced
SubUpsert_NoForeignKey(w, Posted, Forms) ==
  /\ At(w, "sub_ups")
  /\ \E posted \in Posted, f \in Forms :
       LET rid == req[w].open_round
           song == Strip(f.song)
           artist == Strip(f.artist)
           year_raw == Strip(f.year)
           year == ParseYear(year_raw)
           reject == IF rid = 0 THEN "no_open_round"
                     ELSE IF Strip(posted) = <<>> \/ Str(rid) # Strip(posted)
                          THEN "round_changed"
                     ELSE IF ~HasAnswer(song, artist, year_raw) THEN "enter_one"
                     ELSE ""
       IN  IF reject # ""
           THEN /\ Set(w, Idle)
                /\ UNCHANGED <<guesses, accepted>>
           ELSE /\ guesses' = Upsert(guesses, rid, req[w].player, song, artist, year)
                /\ accepted' = Accept(accepted, rid, req[w].player, song, artist, year)
                /\ Set(w, Idle)
  /\ UNCHANGED <<players, rounds, round_seq, history, difficulty, game_status,
                 ended_at, auto_rounds, next_round_at>>

\* lines 577-622: the checks on the form, and the upsert
SubUpsert(w, Posted, Forms) ==
  /\ At(w, "sub_ups")
  /\ \E posted \in Posted, f \in Forms :
       LET rid == req[w].open_round
           song == Strip(f.song)
           artist == Strip(f.artist)
           year_raw == Strip(f.year)
           year == ParseYear(year_raw)
           reject == IF rid = 0 THEN "no_open_round"
                     ELSE IF Strip(posted) = <<>> \/ Str(rid) # Strip(posted)
                          THEN "round_changed"
                     ELSE IF ~HasAnswer(song, artist, year_raw) THEN "enter_one"
                     ELSE ""
       IN  IF reject # ""
           THEN /\ Set(w, Idle)
                /\ UNCHANGED <<guesses, accepted>>
           ELSE IF ~\E r \in rounds : r.id = rid
           THEN \* FOREIGN KEY(round_id): the round was deleted meanwhile
                /\ Set(w, Raise(req[w]))
                /\ UNCHANGED <<guesses, accepted>>
           ELSE /\ guesses' = Upsert(guesses, rid, req[w].player, song, artist, year)
                /\ accepted' = Accept(accepted, rid, req[w].player, song, artist, year)
                /\ Set(w, Idle)
  /\ UNCHANGED <<players, rounds, round_seq, history, difficulty, game_status,
                 ended_at, auto_rounds, next_round_at>>

\* ---------------------------------------------------- admin: set_difficulty
\* line 765: difficulty_locked()
SdLocked(w) ==
  /\ Starts(w)
  /\ Set(w, IF difficulty_locked THEN Answer(Begin("set_difficulty"))
            ELSE [Begin("set_difficulty") EXCEPT !.pc = "sd_set"])
  /\ UNCHANGED db

\* lines 768-770: the form's value (stripped, lower case), 'easy' when unknown
DifficultyOf(form) == IF form \in {"easy", "hard", "extreme"} THEN form ELSE "easy"

\* line 771: set_setting('difficulty', diff)
SdSet(w, Forms) ==
  /\ At(w, "sd_set")
  /\ \E form \in Forms : difficulty' = DifficultyOf(form)
  /\ Set(w, Answer(req[w]))
  /\ UNCHANGED <<players, accepted, rounds, round_seq, guesses, history, game_status,
                 ended_at, auto_rounds, next_round_at>>

\* ------------------------------------------------------- admin: start_game
\* line 785: is_game_ended()
SgEnded(w) ==
  /\ Starts(w)
  /\ Set(w, [Begin("start_game") EXCEPT !.pc = IF is_game_ended THEN "sg_run1" ELSE "sg_auto"])
  /\ UNCHANGED db

\* set_game_running, line 200
SgRun1(w) ==
  /\ At(w, "sg_run1")
  /\ game_status' = "running"
  /\ Set(w, Enter("sg_run2", req[w]))
  /\ UNCHANGED <<players, accepted, rounds, round_seq, guesses, history, difficulty,
                 ended_at, auto_rounds, next_round_at>>

\* set_game_running, line 201
SgRun2(w) ==
  /\ At(w, "sg_run2")
  /\ ended_at' = ""
  /\ Set(w, Enter("sg_auto", req[w]))
  /\ UNCHANGED <<players, accepted, rounds, round_seq, guesses, history, difficulty,
                 game_status, auto_rounds, next_round_at>>

\* line 787
SgAuto(w) ==
  /\ At(w, "sg_auto")
  /\ auto_rounds' = "1"
  /\ Set(w, Enter("sg_sel", req[w]))
  /\ UNCHANGED <<players, accepted, rounds, round_seq, guesses, history, difficulty,
                 game_status, ended_at, next_round_at>>

\* line 790: is there an open round
SgSel(w) ==
  /\ At(w, "sg_sel")
  /\ Set(w, IF OpenIds(rounds) = {} THEN Enter("sg_next", req[w])
            ELSE Answer(req[w]))
  /\ UNCHANGED db

\* lines 791-792: next_round_at = now, then auto_open_round_if_due()
SgNext(w) ==
  /\ At(w, "sg_next")
  /\ next_round_at' = 0
  /\ Set(w, [req[w] EXCEPT !.pc = "ao_pre", !.retA = "tail"])
  /\ UNCHANGED <<players, accepted, rounds, round_seq, guesses, history, difficulty,
                 game_status, ended_at, auto_rounds>>

\* --------------------------------------------------------- admin: stop_auto
\* line 796
SaAuto(w) ==
  /\ Starts(w)
  /\ auto_rounds' = "0"
  /\ Set(w, [Begin("stop_auto") EXCEPT !.pc = "sa_clear"])
  /\ UNCHANGED <<players, accepted, rounds, round_seq, guesses, history, difficulty,
                 game_status, ended_at, next_round_at>>

\* line 797: clear_next_round()
SaClear(w) ==
  /\ At(w, "sa_clear")
  /\ next_round_at' = NotSet
  /\ Set(w, Answer(req[w]))
  /\ UNCHANGED <<players, accepted, rounds, round_seq, guesses, history, difficulty,
                 game_status, ended_at, auto_rounds>>

\* ------------------------------------------------------- admin: set_answers
\* line 801: is_game_ended(), then get_open_round()
AnEnded(w) ==
  /\ Starts(w)
  /\ Set(w, IF is_game_ended THEN Answer(Begin("set_answers"))
            ELSE CallGet("an_upd", Begin("set_answers")))
  /\ UNCHANGED db

\* lines 805-828: UPDATE rounds SET correct_* WHERE id=? AND status='open'
AnUpd(w, Forms) ==
  /\ At(w, "an_upd")
  /\ IF req[w].open_round = 0
     THEN /\ Set(w, Answer(req[w]))
          /\ UNCHANGED rounds
     ELSE /\ \E f \in Forms :
               rounds' = {IF r.id = req[w].open_round /\ r.status = "open"
                          THEN [r EXCEPT !.correct_song = Strip(f.song),
                                         !.correct_artist = Strip(f.artist),
                                         !.correct_year = ParseYear(Strip(f.year))]
                          ELSE r : r \in rounds}
          /\ Set(w, Answer(req[w]))
  /\ UNCHANGED <<players, accepted, round_seq, guesses, history, difficulty, game_status,
                 ended_at, auto_rounds, next_round_at>>

\* ------------------------------------- admin: close_round and end_game
\* line 831: is_game_ended(), then get_open_round()
ClEnded(w) ==
  /\ Starts(w)
  /\ Set(w, IF is_game_ended THEN Answer(Begin("close_round"))
            ELSE CallGet("cl_diff", Begin("close_round")))
  /\ UNCHANGED db

\* line 854: is_game_ended()
EgEnded(w) ==
  /\ Starts(w)
  /\ Set(w, IF is_game_ended THEN Answer(Begin("end_game"))
            ELSE [Begin("end_game") EXCEPT !.pc = "eg_sel"])
  /\ UNCHANGED db

\* lines 857-860: the open round end_game closes
EgSel(w) ==
  /\ At(w, "eg_sel")
  /\ LET r == [req[w] EXCEPT !.open_round = OpenRoundId(rounds)]
     IN  Set(w, Enter(IF r.open_round = 0 THEN "eg_s1" ELSE "cl_diff", r))
  /\ UNCHANGED db

\* A mutant of ClDiff: with no open round the next round is armed all the same
ClDiff_ArmsAnyway(w) ==
  /\ At(w, "cl_diff")
  /\ Set(w, IF req[w].open_round = 0 THEN [req[w] EXCEPT !.pc = "cl_auto"]
            ELSE [req[w] EXCEPT !.pc = "cl_rnd", !.sdiff = difficulty])
  /\ UNCHANGED db

\* lines 835-839 and 339: no open round, or compute_and_store_round_scores
\* reads the difficulty
ClDiff(w) ==
  /\ At(w, "cl_diff")
  /\ Set(w, IF req[w].open_round = 0 THEN Answer(req[w])
            ELSE [req[w] EXCEPT !.pc = "cl_rnd", !.sdiff = difficulty])
  /\ UNCHANGED db

\* lines 341-347: SELECT * FROM rounds WHERE id=?
ClRnd(w) ==
  /\ At(w, "cl_rnd")
  /\ LET hit == {r \in rounds : r.id = req[w].open_round}
     IN  Set(w, IF hit = {}
                THEN [req[w] EXCEPT !.pc = "cl_flip", !.sdiff = ""]
                ELSE LET r == CHOOSE x \in hit : TRUE
                     IN  [req[w] EXCEPT !.pc = "cl_gs",
                            !.srnd = [found |-> TRUE, correct_song |-> r.correct_song,
                                      correct_artist |-> r.correct_artist,
                                      correct_year |-> r.correct_year]])
  /\ UNCHANGED db

\* line 349: SELECT * FROM guesses WHERE round_id=?
ClGs(w) ==
  /\ At(w, "cl_gs")
  /\ Set(w, [req[w] EXCEPT !.pc = "cl_score",
                           !.rows = {g \in guesses : g.round_id = req[w].open_round}])
  /\ UNCHANGED db

\* lines 350-369: each row read is scored, and the row of its id is updated
StoreScores(gs, rows, rnd, d) ==
  {IF \E x \in rows : x.round_id = g.round_id /\ x.player_id = g.player_id
   THEN LET x == CHOOSE y \in rows : y.round_id = g.round_id /\ y.player_id = g.player_id
            sc == ScoreRow(x, rnd.correct_song, rnd.correct_artist, rnd.correct_year, d)
        IN  [g EXCEPT !.points_year = sc.points_year, !.points_song = sc.points_song,
                      !.points_artist = sc.points_artist,
                      !.total_points = sc.total_points]
   ELSE g : g \in gs}

\* lines 350-370: the UPDATEs of compute_and_store_round_scores and its commit
ClScore(w) ==
  /\ At(w, "cl_score")
  /\ guesses' = StoreScores(guesses, req[w].rows, req[w].srnd, req[w].sdiff)
  /\ Set(w, [req[w] EXCEPT !.pc = "cl_flip", !.sdiff = "", !.srnd = NoRound, !.rows = {}])
  /\ UNCHANGED <<players, accepted, rounds, round_seq, history, difficulty, game_status,
                 ended_at, auto_rounds, next_round_at>>

\* utc_now_iso() (line 31, whole seconds) at the UPDATE that closes round rid:
\* the second of the round's first close, or, when the round has been closed
\* before, that second or a later one
CloseTimes(rs, rid) ==
  LET hit == {r \in rs : r.id = rid}
  IN  IF hit = {} THEN {"t"}
      ELSE LET old == (CHOOSE r \in hit : TRUE).closed_at
           IN  IF old = "" THEN {"t"} ELSE IF old = "t" THEN {"t", "u"} ELSE {"u"}

\* lines 840-844 (863-867): UPDATE rounds SET status='closed', closed_at=? WHERE id=?
ClFlip(w) ==
  /\ At(w, "cl_flip")
  /\ \E now \in CloseTimes(rounds, req[w].open_round) :
       rounds' = {IF r.id = req[w].open_round
                  THEN [r EXCEPT !.status = "closed", !.closed_at = now] ELSE r : r \in rounds}
  /\ Set(w, [req[w] EXCEPT !.pc = "cl_stand"])
  /\ UNCHANGED <<players, accepted, round_seq, guesses, history, difficulty, game_status,
                 ended_at, auto_rounds, next_round_at>>

\* line 388: compute_standings()
ClStand(w) ==
  /\ At(w, "cl_stand")
  /\ Set(w, [req[w] EXCEPT !.pc = "cl_snap", !.standings = compute_standings(players, guesses)])
  /\ UNCHANGED db

\* The rows of the snapshot: rank is the position in the list (line 389)
SnapshotRows(rid, st) ==
  {[round_id |-> rid, player_id |-> st[i].player_id, rank |-> i, points |-> st[i].points]
     : i \in 1..Len(st)}

\* INSERT ... ON CONFLICT(round_id, player_id) DO UPDATE (lines 390-398)
HistoryUpsert(h, rows) ==
  {x \in h : ~\E y \in rows : y.round_id = x.round_id /\ y.player_id = x.player_id}
    \cup rows

\* lines 389-399: the snapshot rows and their commit
ClSnap(w) ==
  /\ At(w, "cl_snap")
  /\ LET rows == SnapshotRows(req[w].open_round, req[w].standings)
         r == [req[w] EXCEPT !.standings = <<>>]
     IN  IF rows # {} /\ ~\E x \in rounds : x.id = req[w].open_round
         THEN \* FOREIGN KEY(round_id): the round was deleted meanwhile
              /\ Set(w, Raise(r))
              /\ UNCHANGED history
         ELSE /\ history' = HistoryUpsert(history, rows)
              /\ Set(w, Enter(IF r.op = "close_round" THEN "cl_auto" ELSE "eg_s1", r))
  /\ UNCHANGED <<players, accepted, rounds, round_seq, guesses, difficulty, game_status,
                 ended_at, auto_rounds, next_round_at>>

\* line 847: auto_rounds_enabled()
ClAuto(w) ==
  /\ At(w, "cl_auto")
  /\ Set(w, IF auto_rounds_enabled THEN Enter("cl_status", req[w])
            ELSE Answer(req[w]))
  /\ UNCHANGED db

\* line 847: game_status() == "running"
ClStatus(w) ==
  /\ At(w, "cl_status")
  /\ Set(w, IF game_status = "running" THEN Enter("cl_arm", req[w])
            ELSE Answer(req[w]))
  /\ UNCHANGED db

\* line 848: set_next_round_in_seconds(5)
ClArm(w) ==
  /\ At(w, "cl_arm")
  /\ next_round_at' = Delay
  /\ Set(w, Answer(req[w]))
  /\ UNCHANGED <<players, accepted, rounds, round_seq, guesses, history, difficulty,
                 game_status, ended_at, auto_rounds>>

\* set_game_ended, line 194
EgS1(w) ==
  /\ At(w, "eg_s1")
  /\ game_status' = "ended"
  /\ Set(w, Enter("eg_s2", req[w]))
  /\ UNCHANGED <<players, accepted, rounds, round_seq, guesses, history, difficulty,
                 ended_at, auto_rounds, next_round_at>>

\* set_game_ended, line 195
EgS2(w) ==
  /\ At(w, "eg_s2")
  /\ ended_at' = "t"
  /\ Set(w, Enter("eg_s3", req[w]))
  /\ UNCHANGED <<players, accepted, rounds, round_seq, guesses, history, difficulty,
                 game_status, auto_rounds, next_round_at>>

\* set_game_ended, line 196
EgS3(w) ==
  /\ At(w, "eg_s3")
  /\ auto_rounds' = "0"
  /\ Set(w, Enter("eg_s4", req[w]))
  /\ UNCHANGED <<players, accepted, rounds, round_seq, guesses, history, difficulty,
                 game_status, ended_at, next_round_at>>

\* set_game_ended, line 197
EgS4(w) ==
  /\ At(w, "eg_s4")
  /\ next_round_at' = NotSet
  /\ Set(w, Answer(req[w]))
  /\ UNCHANGED <<players, accepted, rounds, round_seq, guesses, history, difficulty,
                 game_status, ended_at, auto_rounds>>

\* -------------------------------------------------------- admin: reset_game
\* lines 873-882: one transaction
\* A mutant of RsTxn: the UPDATE of the difficulty is missing
RsTxn_KeepsDifficulty(w) ==
  /\ Starts(w)
  /\ guesses' = {}
  /\ history' = {}
  /\ rounds' = {}
  /\ game_status' = "running"
  /\ ended_at' = ""
  /\ auto_rounds' = "0"
  /\ next_round_at' = NotSet
  /\ accepted' = {}
  /\ Set(w, Answer(Begin("reset_game")))
  /\ UNCHANGED <<players, round_seq, difficulty>>

RsTxn(w) ==
  /\ Starts(w)
  /\ guesses' = {}
  /\ history' = {}
  /\ rounds' = {}
  /\ difficulty' = "easy"
  /\ game_status' = "running"
  /\ ended_at' = ""
  /\ auto_rounds' = "0"
  /\ next_round_at' = NotSet
  /\ accepted' = {}
  /\ Set(w, Answer(Begin("reset_game")))
  /\ UNCHANGED <<players, round_seq>>

\* ----------------------------------------------------------- specification
\* get_open_round() and auto_open_round_if_due(); cap bounds the rounds created
Scheduler(w, cap) == GSel(w) \/ AoPre(w) \/ AoTxn(w, cap) \/ GSel2(w)

\* compute_and_store_round_scores, the status flip and save_standings_snapshot
CloseSteps(w) ==
  \/ ClDiff(w) \/ ClRnd(w) \/ ClGs(w) \/ ClScore(w) \/ ClFlip(w) \/ ClStand(w)
  \/ ClSnap(w)

StartGame(w) ==
  SgEnded(w) \/ SgRun1(w) \/ SgRun2(w) \/ SgAuto(w) \/ SgSel(w) \/ SgNext(w)

CloseRound(w) == ClEnded(w) \/ CloseSteps(w) \/ ClAuto(w) \/ ClStatus(w) \/ ClArm(w)

EndGame(w) == EgEnded(w) \/ EgSel(w) \/ EgS1(w) \/ EgS2(w) \/ EgS3(w) \/ EgS4(w)

\* POST /admin with every action but set_prefix (the question is not modelled),
\* and GET /admin
Admin(w, answers, difficulties) ==
  \/ AdminGet(w)
  \/ SdLocked(w) \/ SdSet(w, difficulties)
  \/ StartGame(w)
  \/ SaAuto(w) \/ SaClear(w)
  \/ AnEnded(w) \/ AnUpd(w, answers)
  \/ CloseRound(w) \/ EndGame(w)
  \/ RsTxn(w)

\* What the requests post.  Text is posted as typed; the handlers strip it.
Posted == {<<>>, <<"1">>, <<"2">>}
NoAnswers == {[song |-> <<>>, artist |-> <<>>, year |-> <<>>]}
DifficultyForms == {"hard", "bogus"}

\* The round lifecycle and the scheduler: two workers, every action of the
\* host and the reads, no player (set_answers posts the empty form: answers,
\* guesses and scores are the matter of SpecGuess and SpecSeq).
Next ==
  \/ Tick
  \/ \E w \in Workers :
       Scheduler(w, MaxRounds) \/ ReadBegin(w) \/ Admin(w, NoAnswers, DifficultyForms)

Spec == Init /\ [][Next]_vars

\* The guess ledger under concurrency: one registered player, two workers,
\* submit and the host's actions that touch rounds, answers, scores and
\* snapshots.
GuessForms == {[song |-> <<"a">>, artist |-> <<>>, year |-> <<>>],
               [song |-> <<>>, artist |-> <<>>, year |-> <<"x">>]}
AnswerForms == {[song |-> <<"a">>, artist |-> <<>>, year |-> <<>>]}

InitGuess ==
  /\ players = {[id |-> 1, name |-> <<"a">>]}
  /\ rounds = {}
  /\ round_seq = 0
  /\ guesses = {}
  /\ history = {}
  /\ difficulty = "easy"
  /\ game_status = "running"
  /\ ended_at = ""
  /\ auto_rounds = "0"
  /\ next_round_at = NotSet
  /\ req = [w \in Workers |-> Idle]
  /\ accepted = {}

NextGuess ==
  \/ Tick
  \/ \E w \in Workers :
       \/ Scheduler(w, MaxGuessRounds)
       \/ SubEnded(w) \/ SubUpsert(w, Posted, GuessForms)
       \/ StartGame(w)
       \/ AnEnded(w) \/ AnUpd(w, AnswerForms)
       \/ CloseRound(w) \/ EndGame(w)
       \/ RsTxn(w)

SpecGuess == InitGuess /\ [][NextGuess]_vars

\* Two reads racing for the due scheduler: the game runs, auto-rounds are on,
\* the rounds played so far are closed, the due time has passed, and both
\* workers have begun get_open_round().
InitRace ==
  /\ players = {}
  /\ \E k \in 0..(MaxRounds - 1) :
       /\ rounds = {[id |-> i, status |-> "closed", correct_song |-> NULL,
                     correct_artist |-> NULL, correct_year |-> NULL,
                     closed_at |-> "t"] : i \in 1..k}
       /\ round_seq = k
  /\ guesses = {}
  /\ history = {}
  /\ difficulty \in {"easy", "hard", "extreme"}
  /\ game_status = "running"
  /\ ended_at = ""
  /\ auto_rounds = "1"
  /\ next_round_at = 0
  /\ req = [w \in Workers |-> CallGet("end", Begin("read"))]
  /\ accepted = {}

NextRace == \E w \in Workers : Scheduler(w, MaxRounds)

SpecRace == InitRace /\ [][NextRace]_vars

\* One request at a time: worker 1 serves every handler, players register,
\* and the forms carry songs, artists and years.
SeqWorker == 1
Names == {<<"a">>, <<"B">>}
GuessFormsSeq ==
  {[song |-> <<"a">>, artist |-> <<>>, year |-> <<>>],
   [song |-> <<>>, artist |-> <<>>, year |-> <<"7">>],
   [song |-> <<>>, artist |-> <<>>, year |-> <<"3", "0">>],
   [song |-> <<>>, artist |-> <<>>, year |-> <<"x">>]}
AnswerFormsSeq == {[song |-> <<"a">>, artist |-> <<>>, year |-> <<"7">>]}
DifficultyFormsSeq == {"hard", "extreme", "bogus"}

NextSeq ==
  \/ Tick
  \/ Scheduler(SeqWorker, MaxSeqRounds)
  \/ ReadBegin(SeqWorker)
  \/ RegSel(SeqWorker, Names) \/ RegIns(SeqWorker)
  \/ SubEnded(SeqWorker) \/ SubUpsert(SeqWorker, Posted, GuessFormsSeq)
  \/ Admin(SeqWorker, AnswerFormsSeq, DifficultyFormsSeq)

SpecSeq == Init /\ [][NextSeq]_vars

\* A round is closed while players register: two workers, one player with a
\* guess for the open round 1, whose answer is set.
InitSnap ==
  /\ players = {[id |-> 1, name |-> <<"a">>]}
  /\ rounds = {[id |-> 1, status |-> "open", correct_song |-> <<"a">>,
                correct_artist |-> NULL, correct_year |-> NULL, closed_at |-> ""]}
  /\ round_seq = 1
  /\ guesses = {[round_id |-> 1, player_id |-> 1, guess_song |-> <<"a">>,
                 guess_artist |-> NULL, guess_year |-> NULL, points_year |-> 0,
                 points_song |-> 0, points_artist |-> 0, total_points |-> 0]}
  /\ history = {}
  /\ difficulty = "easy"
  /\ game_status = "running"
  /\ ended_at = ""
  /\ auto_rounds \in {"0", "1"}
  /\ next_round_at = NotSet
  /\ req = [w \in Workers |-> Idle]
  /\ accepted = {[round_id |-> 1, player_id |-> 1, guess_song |-> <<"a">>,
                  guess_artist |-> NULL, guess_year |-> NULL, again |-> FALSE]}

NextSnap ==
  \/ Tick
  \/ \E w \in Workers :
       \/ Scheduler(w, MaxRounds)
       \/ RegSel(w, Names) \/ RegIns(w)
       \/ CloseRound(w)

SpecSnap == InitSnap /\ [][NextSnap]_vars

\* The leaderboard over several rounds: one request at a time, one player
\* registered and one more who may register, answers with a song and an artist, guesses worth 5 or 10 points.
AnswerFormsBoard == {[song |-> <<"a">>, artist |-> <<"b">>, year |-> <<>>]}
GuessFormsBoard ==
  {[song |-> <<"a">>, artist |-> <<>>, year |-> <<>>],
   [song |-> <<"a">>, artist |-> <<"b">>, year |-> <<>>]}

InitBoard ==
  /\ players = {[id |-> 1, name |-> <<"a">>]}
  /\ rounds = {}
  /\ round_seq = 0
  /\ guesses = {}
  /\ history = {}
  /\ difficulty = "easy"
  /\ game_status = "running"
  /\ ended_at = ""
  /\ auto_rounds = "0"
  /\ next_round_at = NotSet
  /\ req = [w \in Workers |-> Idle]
  /\ accepted = {}

NextBoard ==
  \/ Tick
  \/ Scheduler(SeqWorker, MaxBoardRounds)
  \/ ApiStandings(SeqWorker) \/ ApiEnd(SeqWorker)
  \/ RegSel(SeqWorker, Names) \/ RegIns(SeqWorker)
  \/ SubEnded(SeqWorker) \/ SubUpsert(SeqWorker, Posted, GuessFormsBoard)
  \* start_game without set_game_running: no game ends here
  \/ SgEnded(SeqWorker) \/ SgAuto(SeqWorker) \/ SgSel(SeqWorker) \/ SgNext(SeqWorker)
  \/ AnEnded(SeqWorker) \/ AnUpd(SeqWorker, AnswerFormsBoard)
  \/ CloseRound(SeqWorker)

SpecBoard == InitBoard /\ [][NextBoard]_vars

\* Scoring as a function of its inputs: one player's guess for the open
\* round 1 is closed, one request at a time, from every choice of the stored
\* guess, the stored answers and the difficulty.  Stored text is stripped
\* (lines 586-588, 808-809); the song's guess and the artist's answer take
\* any text, the song's answer and the artist's guess the texts one shorter.
Alphabet == {"a", "A", " ", "\t"}
Texts == {s \in UNION {[1..n -> Alphabet] : n \in 0..MaxLen} : Strip(s) = s}
Years == {NULL} \cup {<<y>> : y \in 0..MaxYear}

ScoreInputs ==
  {[gs |-> t, cs |-> u, ga |-> u, ca |-> t, gy |-> NULL, cy |-> NULL, d |-> "easy"]
     : t \in Texts, u \in {x \in Texts : Len(x) < MaxLen}}
  \cup
  {[gs |-> <<"a">>, cs |-> c, ga |-> NULL, ca |-> NULL, gy |-> y, cy |-> z, d |-> d]
     : c \in {NULL, <<"a">>}, y \in Years, z \in Years, d \in {"easy", "hard", "extreme"}}

InitScore ==
  \E i \in ScoreInputs :
    /\ players = {[id |-> 1, name |-> <<"a">>]}
    /\ rounds = {[id |-> 1, status |-> "open", correct_song |-> i.cs,
                  correct_artist |-> i.ca, correct_year |-> i.cy, closed_at |-> ""]}
    /\ round_seq = 1
    /\ guesses = {[round_id |-> 1, player_id |-> 1, guess_song |-> i.gs,
                   guess_artist |-> i.ga, guess_year |-> i.gy, points_year |-> 0,
                   points_song |-> 0, points_artist |-> 0, total_points |-> 0]}
    /\ history = {}
    /\ difficulty = i.d
    /\ game_status = "running"
    /\ ended_at = ""
    /\ auto_rounds = "0"
    /\ next_round_at = NotSet
    /\ req = [w \in Workers |-> Idle]
    /\ accepted = {[round_id |-> 1, player_id |-> 1, guess_song |-> i.gs,
                    guess_artist |-> i.ga, guess_year |-> i.gy, again |-> FALSE]}

\* close_round with auto-rounds off, and the reads of the end of admin()
NextScore ==
  \/ ClEnded(SeqWorker) \/ CloseSteps(SeqWorker) \/ ClAuto(SeqWorker)
  \/ GSel(SeqWorker) \/ AoPre(SeqWorker) \/ GSel2(SeqWorker)

SpecScore == InitScore /\ [][NextScore]_vars

\* The standings as a function of the tables: any players registered in any
\* order, round 1 closed under 'hard' with each player's guess, if any, scored
\* and the snapshot taken; /api/standings is read.
NamesWide == {<<"a">>, <<"B">>, <<"É", "b">>, <<"é", "a">>}
StandForms == {[song |-> <<"a">>, year |-> NULL], [song |-> NULL, year |-> <<20>>]}
StandRound ==
  [id |-> 1, status |-> "closed", correct_song |-> <<"a">>, correct_artist |-> NULL,
   correct_year |-> <<0>>, closed_at |-> "t"]

StandGuess(pid, f) ==
  LET g == [round_id |-> 1, player_id |-> pid, guess_song |-> f.song,
            guess_artist |-> NULL, guess_year |-> f.year]
      sc == ScoreRow(g, StandRound.correct_song, StandRound.correct_artist,
                     StandRound.correct_year, "hard")
  IN  [round_id |-> 1, player_id |-> pid, guess_song |-> f.song,
       guess_artist |-> NULL, guess_year |-> f.year, points_year |-> sc.points_year,
       points_song |-> sc.points_song, points_artist |-> sc.points_artist,
       total_points |-> sc.total_points]

InitStand ==
  \E n \in 0..Cardinality(NamesWide) :
    \E order \in {s \in [1..n -> NamesWide] : \A i, j \in 1..n : s[i] = s[j] => i = j} :
      \E guessing \in SUBSET (1..n) :
        \E form \in [guessing -> StandForms] :
          /\ players = {[id |-> i, name |-> order[i]] : i \in 1..n}
          /\ rounds = {StandRound}
          /\ round_seq = 1
          /\ guesses = {StandGuess(i, form[i]) : i \in guessing}
          /\ history = SnapshotRows(1, compute_standings(players, guesses))
          /\ difficulty = "hard"
          /\ game_status = "running"
          /\ ended_at = ""
          /\ auto_rounds = "0"
          /\ next_round_at = NotSet
          /\ req = [w \in Workers |-> Idle]
          /\ accepted = {[round_id |-> 1, player_id |-> i, guess_song |-> form[i].song,
                          guess_artist |-> NULL, guess_year |-> form[i].year,
                          again |-> FALSE] : i \in guessing}

NextStand == ApiStandings(SeqWorker) \/ ApiEnd(SeqWorker)

SpecStand == InitStand /\ [][NextStand]_vars

\* The round lifecycle and the scheduler as in Spec, with a store whose
\* transactions may fail.
NextFault == Next \/ \E w \in Workers : AoFail(w)

SpecFault == Init /\ [][NextFault]_vars

\* The scheduler over time: one request at a time, the host's actions on the
\* game and its rounds, the reads, and transactions that may fail.  Time
\* passes, a request that has begun runs to its end, reads keep coming, and a
\* transaction that is tried again and again does not fail for ever.
NextLive ==
  \/ Tick
  \/ Scheduler(SeqWorker, MaxRounds) \/ AoFail(SeqWorker)
  \/ ReadBegin(SeqWorker)
  \/ StartGame(SeqWorker)
  \/ SaAuto(SeqWorker) \/ SaClear(SeqWorker)
  \/ CloseRound(SeqWorker) \/ EndGame(SeqWorker)
  \/ RsTxn(SeqWorker)

InFlight(w) == req[w].pc # "idle" /\ NextLive /\ req'[w] # req[w]

FairLive ==
  /\ WF_vars(Tick)
  /\ WF_vars(ReadBegin(SeqWorker))
  /\ WF_vars(InFlight(SeqWorker))
  /\ SF_vars(AoTxn(SeqWorker, MaxRounds))

SpecLive == Init /\ [][NextLive]_vars /\ FairLive

\* ------------------------------------------------------------------ claims
\* C1: in every reachable state, whatever the interleaving of the host's
\* actions and the reads that trigger the scheduler, at most one round is open.
C1_AtMostOneOpenRound == Cardinality(OpenIds(rounds)) <= 1

\* C1 witness: a second round is open after the first was closed, while a
\* worker that found the scheduler due is about to enter its transaction.
C1_Witness ==
  /\ Cardinality(rounds) = 2
  /\ Cardinality(OpenIds(rounds)) = 1
  /\ \E w \in Workers : req[w].pc = "ao_txn"

\* C9: set_difficulty never changes the difficulty in a state where a round
\* exists.
C9_DifficultyLockedOnceRounds ==
  [][\A w \in Workers :
       (req[w].pc = "sd_set" /\ req'[w].pc # "sd_set" /\ difficulty' # difficulty)
         => Cardinality(rounds) = 0]_vars

\* C2: when two reads race for the due scheduler, exactly one new open round
\* is created: never more than one, and once both reads have returned there
\* is one, the only round that is not closed, and the due time is cleared.
C2_ExactlyOneRoundFromRace ==
  /\ Cardinality(OpenIds(rounds)) <= 1
  /\ (\A w \in Workers : req[w].pc = "idle")
       => /\ Cardinality(OpenIds(rounds)) = 1
          /\ Cardinality(rounds) = Cardinality({r \in rounds : r.status = "closed"}) + 1
          /\ round_seq = Cardinality(rounds)
          /\ next_round_at = NotSet

\* C2 witness: one read has created the round while the other, which had
\* found the scheduler due as well, is about to enter its transaction.
C2_Witness ==
  \E w \in Workers :
    /\ req[w].pc = "ao_txn"
    /\ OpenIds(rounds) # {}
    /\ \A v \in Workers \ {w} : req[v].pc = "g_sel2"

\* C5: every stored guess row has a song, an artist or a year.
C5_GuessHasAnAnswer ==
  \A g \in guesses :
    g.guess_song # NULL \/ g.guess_artist # NULL \/ g.guess_year # NULL

\* C7: ranks are dense, in the standings and in every snapshot: a rank is 1
\* plus the number of distinct point totals above the player's own.
C7_DenseRank ==
  /\ LET st == api_standings(players, guesses)
     IN  \A i \in 1..Len(st) :
           st[i].rank =
             1 + Cardinality({st[j].points : j \in {k \in 1..Len(st) : st[k].points > st[i].points}})
  /\ \A h \in history :
       h.rank =
         1 + Cardinality({x.points : x \in {y \in history :
                                             y.round_id = h.round_id /\ y.points > h.points}})

RoundHas(rid, status) == \E r \in rounds : r.id = rid /\ r.status = status

Points(g) ==
  [points_year |-> g.points_year, points_song |-> g.points_song,
   points_artist |-> g.points_artist, total_points |-> g.total_points]

\* C3: whenever a round is closed, every guess row of the round carries the
\* points of its stored guess fields against the round's answers and the
\* difficulty.
C3_ClosedRoundsScored ==
  \A r \in rounds :
    r.status = "closed" =>
      \A g \in guesses :
        g.round_id = r.id =>
          Points(g) = ScoreRow(g, r.correct_song, r.correct_artist, r.correct_year,
                               difficulty)

\* C4: at the moment submit inserts or overwrites a guess row, the round it
\* writes into has status 'open'.
C4_SubmitWritesOpenRound ==
  [][\A w \in Workers :
       (req[w].pc = "sub_ups" /\ req'[w].pc # "sub_ups" /\ guesses' # guesses)
         => RoundHas(req[w].open_round, "open")]_vars

\* C6: there is at most one guess row per (round_id, player_id), its guess
\* fields are those of the last accepted submission of the player for the
\* round, and submitting the stored guess again leaves the table, totals
\* included, as it is.
C6_OneRowLastSubmissionWins ==
  /\ \A g, h \in guesses :
       (g.round_id = h.round_id /\ g.player_id = h.player_id) => g = h
  /\ \A a \in accepted :
       \E g \in guesses :
         /\ g.round_id = a.round_id /\ g.player_id = a.player_id
         /\ g.guess_song = a.guess_song
         /\ g.guess_artist = a.guess_artist
         /\ g.guess_year = a.guess_year
  /\ \A g \in guesses :
       Upsert(guesses, g.round_id, g.player_id, g.guess_song, g.guess_artist,
              g.guess_year) = guesses

\* C6 witness: a player has submitted more than once for a round, whose one
\* row has been scored with points and which is closed.
C6_Witness ==
  \E a \in accepted :
    /\ a.again
    /\ RoundHas(a.round_id, "closed")
    /\ \E g \in guesses :
         /\ g.round_id = a.round_id /\ g.player_id = a.player_id
         /\ g.guess_song = a.guess_song
         /\ g.total_points > 0

\* C8: the guesses of a round that is still open carry no points, and each
\* player's standings points are the sum of total_points over the guesses of
\* closed rounds.
C8_StandingsCountClosedRoundsOnly ==
  /\ \A g \in guesses : RoundHas(g.round_id, "open") => g.total_points = 0
  /\ LET st == compute_standings(players, guesses)
     IN  \A i \in 1..Len(st) :
           st[i].points =
             SumTotals({g \in guesses : /\ g.player_id = st[i].player_id
                                        /\ RoundHas(g.round_id, "closed")})

\* C10: once end_game has completed and until the game is resumed, submit
\* inserts or modifies no guess row.
C10_NoSubmitOnceEnded ==
  [][\A w \in Workers :
       (req[w].pc = "sub_ups" /\ req'[w].pc # "sub_ups" /\ guesses' # guesses)
         => ~(game_status = "ended" /\ \A v \in Workers : req[v].op # "end_game")]_vars

\* C11: when end_game completes, no round is open, game_status is 'ended',
\* ended_at is set, auto_rounds is disabled and next_round_at is empty.
C11_EndGamePostcondition ==
  [][\A w \in Workers :
       (req[w].pc = "eg_s4" /\ req'[w].pc # "eg_s4")
         => /\ OpenIds(rounds') = {}
            /\ game_status' = "ended"
            /\ ended_at' # ""
            /\ auto_rounds' = "0"
            /\ next_round_at' = NotSet]_vars

\* The snapshot of round rid holds one row per player of ps, with the points
\* and the rank the player has in the standings of (ps, gs).
SnapshotMatches(rid, ps, gs, h) ==
  LET st == api_standings(ps, gs)
  IN  \A i \in 1..Len(st) :
        LET rows == {x \in h : x.round_id = rid /\ x.player_id = st[i].player_id}
        IN  /\ Cardinality(rows) = 1
            /\ \A x \in rows : x.points = st[i].points /\ x.rank = st[i].rank

\* C12: when the close of round r completes (scores, status flip, snapshot),
\* standings_history holds exactly one row for r per registered player, with
\* the player's cumulative standings points and standings rank at that moment.
C12_SnapshotPerPlayerAtClose ==
  [][\A w \in Workers :
       (req[w].pc = "cl_snap" /\ req'[w].pc \notin {"cl_snap", "idle"})
         => SnapshotMatches(req[w].open_round, players', guesses', history')]_vars

ClosedIds == {r.id : r \in {x \in rounds : x.status = "closed"}}

SnapshotRanks(rid, pid) == {x.rank : x \in {y \in history : y.round_id = rid /\ y.player_id = pid}}

\* The delta the claim gives the player of a row of the latest snapshot
DeltaOf(pid, last) ==
  LET before == ClosedIds \ {last}
      now == CHOOSE k \in SnapshotRanks(last, pid) : TRUE
  IN  IF before = {} \/ SnapshotRanks(Max(before), pid) = {} THEN 0
      ELSE (CHOOSE k \in SnapshotRanks(Max(before), pid) : TRUE) - now

\* C13: the delta map is empty when no round is closed; otherwise it has an
\* entry for exactly the players with a row in the latest closed round's
\* snapshot, equal to the rank in the previous closed round's snapshot minus
\* the rank in the latest one, and 0 when there is no previous closed round or
\* no previous row; /api/standings reports that delta for each player.
C13_RankDelta ==
  LET d == get_rank_delta_for_latest(rounds, history)
  IN  /\ ClosedIds = {} => DOMAIN d = {}
      /\ ClosedIds # {} =>
           LET last == Max(ClosedIds)
           IN  /\ DOMAIN d = {x.player_id : x \in {y \in history : y.round_id = last}}
               /\ \A pid \in DOMAIN d : d[pid] = DeltaOf(pid, last)
      /\ \A w \in Workers :
           req[w].pc = "ap_resp" =>
             \A i \in 1..Len(req[w].standings) :
               LET p == CHOOSE q \in players : q.name = req[w].standings[i].player
               IN  req[w].standings[i].delta =
                     IF p.id \in DOMAIN d THEN d[p.id] ELSE 0

\* C13 witness: /api/standings answers with a player who moved up and one who
\* moved down between the two latest closed rounds.
C13_Witness ==
  \E w \in Workers :
    /\ req[w].pc = "ap_resp"
    /\ Cardinality(ClosedIds) >= 2
    /\ \E i, j \in 1..Len(req[w].standings) :
         req[w].standings[i].delta > 0 /\ req[w].standings[j].delta < 0

\* The guesses that have been scored at the close of their round, each with
\* its round
Scored == {x \in guesses \X rounds : x[2].id = x[1].round_id /\ x[2].status = "closed"}

\* The table of year points
YearTable(d, diff) ==
  CASE diff = "easy" ->
         IF d <= 10 THEN <<5, 4, 3, 2, 2, 2, 1, 1, 1, 1, 1>>[d + 1] ELSE 0
    [] diff = "hard" ->
         IF d <= 10 THEN <<10, 8, 6, 4, 4, 4, 2, 2, 2, 2, 2>>[d + 1] ELSE -4
    [] diff = "extreme" ->
         IF d = 0 THEN 10 ELSE IF d <= 10 THEN 0 ELSE -5

YearPoints(g, r) ==
  IF g.guess_year = NULL \/ r.correct_year = NULL THEN 0
  ELSE YearTable(Abs(g.guess_year[1] - r.correct_year[1]), difficulty)

\* C14: the year points of a scored guess are those of the table for the
\* difference of the years and the difficulty, and 0 when the guess has no
\* year or the round has no correct year.
C14_YearPointsTable ==
  \A x \in Scored : x[1].points_year = YearPoints(x[1], x[2])

\* C14 witness: a hard round is closed with a year guess off by more than 10,
\* worth -4, or by exactly 10, worth 2.
C14_Witness ==
  /\ difficulty = "hard"
  /\ \E x \in Scored :
       /\ x[1].guess_year # NULL /\ x[2].correct_year # NULL
       /\ \/ Abs(x[1].guess_year[1] - x[2].correct_year[1]) > 10 /\ x[1].points_year = -4
          \/ Abs(x[1].guess_year[1] - x[2].correct_year[1]) = 10 /\ x[1].points_year = 2

\* The words of a text, in lower case
RECURSIVE SplitWords(_, _, _)
SplitWords(s, word, done) ==
  LET closed == IF word = <<>> THEN done ELSE Append(done, word)
  IN  IF s = <<>> THEN closed
      ELSE IF Head(s) \in {" ", "\t"} THEN SplitWords(Tail(s), <<>>, closed)
      ELSE SplitWords(Tail(s), Append(word, IF Head(s) = "A" THEN "a" ELSE Head(s)), done)

TextPoints(guess, correct) ==
  IF correct # NULL /\ guess # NULL
     /\ SplitWords(guess, <<>>, <<>>) = SplitWords(correct, <<>>, <<>>)
  THEN 5 ELSE 0

\* C16: points_song and points_artist are 0 or 5, and for a scored guess 5
\* exactly when the round has the correct value and the guess equals it up to
\* surrounding whitespace, runs of whitespace and letter case.
C16_SongArtistPoints ==
  /\ \A g \in guesses : g.points_song \in {0, 5} /\ g.points_artist \in {0, 5}
  /\ \A x \in Scored :
       /\ x[1].points_song = TextPoints(x[1].guess_song, x[2].correct_song)
       /\ x[1].points_artist = TextPoints(x[1].guess_artist, x[2].correct_artist)

\* C16 witness: a scored guess earns the 5 points of the song with a text that
\* differs from the answer in case and in a run of whitespace.
C16_Witness ==
  \E x \in Scored :
    /\ x[1].points_song = 5
    /\ Len(x[1].guess_song) > Len(x[2].correct_song)
    /\ \E i \in 1..Len(x[2].correct_song) : x[1].guess_song[i] # x[2].correct_song[i]

\* C15: every guess's total is the sum of its three parts, and the total of a
\* scored guess, the player's standings points and the player's snapshot
\* points are the sum the tables give, negative when it is negative.
C15_TotalsNotClamped ==
  /\ \A g \in guesses :
       g.total_points = g.points_song + g.points_artist + g.points_year
  /\ \A x \in Scored :
       LET sum == YearPoints(x[1], x[2])
                    + TextPoints(x[1].guess_song, x[2].correct_song)
                    + TextPoints(x[1].guess_artist, x[2].correct_artist)
           st == compute_standings(players, guesses)
       IN  /\ x[1].total_points = sum
           /\ \A i \in 1..Len(st) : st[i].player_id = x[1].player_id => st[i].points = sum
           /\ \A h \in history :
                (h.round_id = x[2].id /\ h.player_id = x[1].player_id) => h.points = sum

\* C15 witness: a year miss of more than 10 has left a negative total, in the
\* guess, in the standings and in the snapshot.
C15_Witness ==
  \E x \in Scored :
    /\ x[1].total_points < 0
    /\ compute_standings(players, guesses)[1].points < 0
    /\ \E h \in history : h.round_id = x[2].id /\ h.points < 0

\* Lower case of a letter
LowerCase(c) ==
  CASE c = "A" -> "a"
    [] c = "B" -> "b"
    [] c = "É" -> "é"
    [] OTHER -> c

\* s comes before t when both are compared without regard to letter case
RECURSIVE CaselessLess(_, _)
CaselessLess(s, t) ==
  IF t = <<>> THEN FALSE
  ELSE IF s = <<>> THEN TRUE
  ELSE IF LowerCase(Head(s)) # LowerCase(Head(t))
       THEN CharCode(LowerCase(Head(s))) < CharCode(LowerCase(Head(t)))
       ELSE CaselessLess(Tail(s), Tail(t))

\* C17: the standings /api/standings answers with list every registered
\* player exactly once, a player with no guesses with 0 points, by points
\* descending and, among equal points, by name ascending without regard to
\* case.
C17_StandingsOrder ==
  \A w \in Workers :
    req[w].pc = "ap_resp" =>
      LET st == req[w].standings
      IN  /\ Len(st) = Cardinality(players)
          /\ \A p \in players :
               \E i \in 1..Len(st) :
                 /\ st[i].player = p.name
                 /\ \A j \in 1..Len(st) : st[j].player = p.name => j = i
                 /\ (\A g \in guesses : g.player_id # p.id) => st[i].points = 0
          /\ \A i, j \in 1..Len(st) :
               i < j => /\ st[i].points >= st[j].points
                        /\ st[i].points = st[j].points
                             => ~CaselessLess(st[j].player, st[i].player)

Answers(r) == <<r.correct_song, r.correct_artist, r.correct_year>>

\* C18: the correct answers of a round change only by the UPDATE of
\* set_answers, on a round that is open, while the game is running; those of a
\* closed round never change.
C18_AnswersChangeOnlyWhileOpenAndRunning ==
  [][\A r \in rounds : \A q \in rounds' :
       (q.id = r.id /\ Answers(q) # Answers(r))
         => /\ \E w \in Workers : req[w].pc = "an_upd" /\ req'[w].pc # "an_upd"
            /\ r.status = "open"
            /\ game_status = "running"]_vars

C20_ResetGame ==
  [][\A w \in Workers :
       RsTxn(w) => /\ rounds' = {} /\ guesses' = {} /\ history' = {}
                   /\ difficulty' = "easy"
                   /\ game_status' = "running"
                   /\ ended_at' = ""
                   /\ auto_rounds' = "0"
                   /\ next_round_at' = NotSet
                   /\ players' = players]_vars

\* C20 witness: the rounds of a game with registered players are gone, and
\* the request that reset it is on its way out.
C20_Witness ==
  /\ rounds = {} /\ guesses = {} /\ history = {}
  /\ round_seq > 0
  /\ Cardinality(players) = 2
  /\ difficulty = "easy" /\ game_status = "running" /\ ended_at = ""
  /\ auto_rounds = "0" /\ next_round_at = NotSet
  /\ req[SeqWorker].pc = "ao_pre"

\* C21: every guess row and every snapshot row refers to an existing round
\* and an existing player, also when reset_game runs while a submit or a
\* close_round is in flight.
RoundIds == {r.id : r \in rounds}

PlayerIds == {p.id : p \in players}

C21_ReferentialIntegrity ==
  /\ \A g \in guesses : g.round_id \in RoundIds /\ g.player_id \in PlayerIds
  /\ \A h \in history : h.round_id \in RoundIds /\ h.player_id \in PlayerIds

\* C21 witness: a close_round is about to write the snapshot of a round that
\* reset_game has deleted meanwhile.
C21_Witness ==
  \E w \in Workers :
    /\ req[w].pc = "cl_snap"
    /\ req[w].open_round \notin RoundIds \cup {0}
    /\ Len(req[w].standings) > 0

\* C22: the snapshot rows of a round, once written, are never modified and
\* none is added for that round; only reset_game removes them.
SnapshotOf(h, rid) == {x \in h : x.round_id = rid}

C22_SnapshotsImmutable ==
  [][\A rid \in {x.round_id : x \in history} :
       \/ SnapshotOf(history', rid) = SnapshotOf(history, rid)
       \/ rounds' = {} /\ history' = {}]_vars

\* C23: a closed round is never open again: it stays closed, with the
\* closed_at it was closed with, until reset_game deletes it; start_game on an
\* ended game sets game_status to running and clears ended_at, and reopens no
\* round.
C23_ClosedStaysClosed ==
  [][/\ \A r \in rounds :
          r.status = "closed" => (r \in rounds' \/ rounds' = {})
     /\ \A w \in Workers :
          (req[w].op = "start_game" /\ req[w].pc \in {"sg_run1", "sg_run2"}
             /\ req'[w] # req[w])
            => /\ OpenIds(rounds') \subseteq OpenIds(rounds)
               /\ req[w].pc = "sg_run1" => game_status' = "running"
               /\ req[w].pc = "sg_run2" => ended_at' = ""]_vars

\* C24: a round is inserted only where, at that moment, the game runs,
\* auto_rounds is on, no round is open and next_round_at is set and elapsed,
\* and the same step clears next_round_at; a transaction whose re-check fails,
\* or which fails itself, leaves rounds and settings as they were and the
\* caller goes on.
NewRounds == {r \in rounds' : r.id \notin {x.id : x \in rounds}}

C24_AutoOpenGuardedAndAtomic ==
  [][/\ NewRounds # {}
          => /\ game_status = "running" /\ auto_rounds = "1"
             /\ OpenIds(rounds) = {}
             /\ next_round_at = 0
             /\ next_round_at' = NotSet
             /\ Cardinality(NewRounds) = 1
             /\ \A r \in NewRounds : r.status = "open"
             /\ UNCHANGED <<difficulty, game_status, ended_at, auto_rounds>>
     /\ \A w \in Workers :
          (req[w].pc = "ao_txn" /\ req'[w] # req[w] /\ NewRounds = {})
            => /\ UNCHANGED <<rounds, round_seq, settings>>
               /\ req'[w] = Enter(req[w].retA, req[w])]_vars

\* C24 witness: a round has been inserted and a transaction is about to find
\* the game ended at its re-check.
C24_Witness ==
  \E w \in Workers :
    /\ req[w].pc = "ao_txn"
    /\ game_status = "ended"
    /\ auto_rounds = "1" /\ next_round_at = 0 /\ OpenIds(rounds) = {}
    /\ round_seq > 0

\* C25: once the next round is armed, with the game running, auto_rounds on
\* and no round open, reads eventually find a round open, unless the
\* scheduler is stopped or the game is ended or reset first; a transaction
\* that failed is tried again by the next read.
Armed ==
  /\ game_status = "running" /\ auto_rounds = "1"
  /\ OpenIds(rounds) = {}
  /\ next_round_at # NotSet
  /\ round_seq < MaxRounds

C25_ArmedRoundEventuallyOpens ==
  Armed ~> (OpenIds(rounds) # {} \/ auto_rounds = "0" \/ game_status = "ended")

\* C25 witness: close_round has closed round 1 with auto-rounds on, and the
\* scheduler has opened the next round.
C25_Witness ==
  /\ \E r \in rounds : r.id = 1 /\ r.status = "closed"
  /\ \E r \in rounds : r.id = 2 /\ r.status = "open"
  /\ auto_rounds = "1" /\ game_status = "running" /\ next_round_at = NotSet

\* C26: while the game is ended no round is open.
C26_NoOpenRoundWhileEnded ==
  game_status = "ended" => OpenIds(rounds) = {}

\* C27: after stop_auto or end_game no round is opened until start_game acts
\* again: stop_auto and end_game turn auto_rounds off, a round is opened only
\* while auto_rounds is on and the game runs, whatever close_round has armed,
\* and only start_game turns auto_rounds on or resumes an ended game with
\* auto_rounds on.
ActsAs(w, op) == req[w].op = op /\ req'[w] # req[w]

====
